---- MODULE Spec2Model ----
(***************************************************************************)
(* examples/engine_with_historic_candles.rs: the historical candle         *)
(* loaders (CSV and JSON), the conversion BinanceCandle -> Candle, main's  *)
(* construction of the feed / trader / engine, and the event sink loop     *)
(* listen_to_engine_events, as one state machine.                          *)
(*                                                                         *)
(* Instants (chrono DateTime<Utc>) are integers: milliseconds since the    *)
(* epoch.  u64 / i64 are W-bit integers, the chrono range is               *)
(* -ChronoMaxMs..ChronoMaxMs with ChronoMaxMs < 2^(W-1), as in the build   *)
(* (chrono's largest instant is below i64::MAX milliseconds).              *)
(*                                                                         *)
(* A CSV record carries the two things the loader's control flow and its   *)
(* timestamps depend on: whether the csv crate deserializes the row into   *)
(* BinanceCandle, and its close_time.  The price, volume and trade-count   *)
(* fields are copied unchanged (lines 166-171) and are not modelled.       *)
(***************************************************************************)
EXTENDS Integers, Sequences, FiniteSets

(* ------------------------------ bounds --------------------------------- *)
\* Width of the modelled u64 / i64.
W == 13
\* Largest instant chrono represents, in milliseconds (scaled with W).
ChronoMaxMs == 2999
\* Most records a source file holds.
MaxRows == 2
\* Most events the engine emits in one run.
MaxEmit == 2
\* Most pulls the consumer makes after the feed has reported exhaustion.
MaxExtraPulls == 2

(* ------------------------- program constants --------------------------- *)
\* `/ 1000` at line 160: milliseconds per second.
MillisPerSec == 1000

U64Max == 2^W - 1
I64Max == 2^(W-1) - 1

VARIABLES
    loader,     \* which loader main's first line calls: "csv" (line 38) or "json"
    mainPc,     \* main's position
    rows,       \* the source records consumed by the loader so far
    ret,        \* the loader's Vec<MarketEvent> under construction
    data,       \* main's `data`: the Vec the loader returned
    feed,       \* historical::MarketFeed: the events its iterator still holds
    pulls,      \* the results of the pulls made on the feed, in order
    txOpen,     \* whether some EventTx (sender half) is alive
    event_rx,   \* the unbounded channel's buffer (FIFO)
    emitted,    \* every event sent on the channel, in send order
    received,   \* every event the sink loop received, in order
    printed,    \* the lines the sink loop printed (one per println!)
    sinkPc      \* the sink task: "unspawned", "recv", "returned", "cancelled"

vars == <<loader, mainPc, rows, ret, data, feed, pulls, txOpen, event_rx,
          emitted, received, printed, sinkPc>>

(* ------------------------------ values --------------------------------- *)
None == [some |-> FALSE, v |-> 0]
Some(x) == [some |-> TRUE, v |-> x]

\* A row the csv crate deserializes into BinanceCandle (lines 142-155).
BinanceCandle(u) == [decodes |-> TRUE, close_time |-> u]
\* A row it does not (wrong column count, non-numeric field, ...).
BadRow == [decodes |-> FALSE, close_time |-> 0]

\* The ten variants of barter::event::Event matched at lines 201-239.
EventKinds ==
    {"Market", "Signal", "SignalForceExit", "OrderNew", "OrderUpdate",
     "Fill", "PositionNew", "PositionUpdate", "PositionExit", "Balance"}

\* Rows of an ordinary file: close times on and off a whole second, and a
\* malformed row.
NominalRows == {BinanceCandle(1000), BinanceCandle(1999), BadRow}

\* Rows at the edges of the u64 -> i64 -> chrono conversions.
BoundaryRows ==
    {BinanceCandle(u) : u \in {1000, 1999, ChronoMaxMs, ChronoMaxMs + 1,
                               I64Max, I64Max + 1, U64Max - ChronoMaxMs,
                               U64Max - ChronoMaxMs + 1, U64Max}}
    \cup {BadRow}

\* close_time values of the candles of a JSON document (already instants).
JsonTimes == {-1, 1000, 1999}

RECURSIVE SeqsUpTo(_, _)
SeqsUpTo(S, n) ==
    IF n = 0 THEN {<<>>}
    ELSE LET shorter == SeqsUpTo(S, n - 1)
         IN  shorter \cup {Append(s, x) : s \in {t \in shorter : Len(t) = n - 1}, x \in S}

(* --------------------------- pure functions ---------------------------- *)
\* `x as i64` for a u64 x (lines 160, 187): reinterpretation modulo 2^W.
AsI64(u) == IF u > I64Max THEN u - 2^W ELSE u

\* Rust's integer `/`: truncation toward zero (line 160).
TruncDiv(a, b) == IF a >= 0 THEN a \div b ELSE -((-a) \div b)

\* chrono::NaiveDateTime::from_timestamp_opt(secs, nsecs) with nsecs = 0.
from_timestamp_opt(secs) ==
    IF -ChronoMaxMs <= secs * MillisPerSec /\ secs * MillisPerSec <= ChronoMaxMs
    THEN Some(secs * MillisPerSec) ELSE None

\* Utc.timestamp_millis_opt(millis).
timestamp_millis_opt(millis) ==
    IF -ChronoMaxMs <= millis /\ millis <= ChronoMaxMs THEN Some(millis) ELSE None

\* impl Into<Candle> for BinanceCandle, lines 157-174: the Option the unwrap
\* at line 160 is applied to, holding the Candle.
BinanceCandle_into(record) ==
    LET t == from_timestamp_opt(TruncDiv(AsI64(record.close_time), MillisPerSec))
    IN  IF t.some THEN Some([close_time |-> t.v]) ELSE None

\* The MarketEvent pushed at lines 186-192; None when an unwrap panics.
CsvMarketEvent(record) ==
    LET et == timestamp_millis_opt(AsI64(record.close_time))
        c  == BinanceCandle_into(record)
    IN  IF et.some /\ c.some
        THEN Some([exchange_time |-> et.v, candle |-> c.v])
        ELSE None

\* The MarketEvent built at lines 131-137 from a JSON candle.
JsonMarketEvent(candle) == [exchange_time |-> candle.close_time, candle |-> candle]

\* Variant of ArmPrints: the Fill arm left empty like the Market arm.
ArmPrints_fill_silent(kind) ==
    kind \in {"Signal", "OrderNew", "PositionNew", "PositionUpdate",
              "PositionExit", "Balance"}

\* The match at lines 201-239: whether the arm of `kind` holds a println!.
ArmPrints(kind) ==
    kind \in {"Signal", "OrderNew", "Fill", "PositionNew", "PositionUpdate",
              "PositionExit", "Balance"}

NoEvent == [exchange_time |-> 0, candle |-> [close_time |-> 0]]
FeedNextOf(e) == [tag |-> "Next", event |-> e]
FeedFinished == [tag |-> "Finished", event |-> NoEvent]

(* -------------------------------- Init --------------------------------- *)
InitWith(L) ==
    /\ loader \in L
    /\ mainPc = "load"
    /\ rows = <<>>
    /\ ret = <<>>
    /\ data = <<>>
    /\ feed = <<>>
    /\ pulls = <<>>
    /\ txOpen = FALSE
    /\ event_rx = <<>>
    /\ emitted = <<>>
    /\ received = <<>>
    /\ printed = <<>>
    /\ sinkPc = "unspawned"

\* main as written calls load_csv_market_event_candles (line 38).
Init == InitWith({"csv"})

\* Either loader in main's first line.
InitLoad == InitWith({"csv", "json"})

(* ------------------------------ loaders -------------------------------- *)
\* Lines 177-180 / 124: the source file cannot be opened or read; expect panics.
load_open_fail ==
    /\ mainPc = "load"
    /\ rows = <<>> /\ ret = <<>>
    /\ mainPc' = "panicked"
    /\ UNCHANGED <<loader, rows, ret, data, feed, pulls, txOpen, event_rx,
                   emitted, received, printed, sinkPc>>

\* Variant of load_csv_record: a row that does not decode is skipped and the
\* loop continues (skip-and-continue instead of unwrap).
load_csv_record_skip(Rows) ==
    /\ mainPc = "load"
    /\ loader = "csv"
    /\ Len(rows) < MaxRows
    /\ \E result \in Rows :
         /\ rows' = Append(rows, result)
         /\ IF ~result.decodes
            THEN /\ mainPc' = mainPc
                 /\ ret' = ret
            ELSE IF ~CsvMarketEvent(result).some
            THEN /\ mainPc' = "panicked"
                 /\ ret' = <<>>
            ELSE /\ mainPc' = mainPc
                 /\ ret' = Append(ret, CsvMarketEvent(result).v)
    /\ UNCHANGED <<loader, data, feed, pulls, txOpen, event_rx, emitted,
                   received, printed, sinkPc>>

\* One iteration of the loop at lines 183-193, on the next record of the file.
load_csv_record(Rows) ==
    /\ mainPc = "load"
    /\ loader = "csv"
    /\ Len(rows) < MaxRows
    /\ \E result \in Rows :
         /\ rows' = Append(rows, result)
         /\ IF ~result.decodes \/ ~CsvMarketEvent(result).some
            THEN /\ mainPc' = "panicked"       \* unwrap at 184, 187 or 160
                 /\ ret' = <<>>                \* dropped by the unwinding
            ELSE /\ mainPc' = mainPc
                 /\ ret' = Append(ret, CsvMarketEvent(result).v)
    /\ UNCHANGED <<loader, data, feed, pulls, txOpen, event_rx, emitted,
                   received, printed, sinkPc>>

\* Line 194 and line 38: the file is at its end, the loader returns ret.
load_csv_return ==
    /\ mainPc = "load"
    /\ loader = "csv"
    /\ data' = ret
    /\ mainPc' = "build"
    /\ UNCHANGED <<loader, rows, ret, feed, pulls, txOpen, event_rx, emitted,
                   received, printed, sinkPc>>

\* load_json_market_event_candles, lines 123-139: the document parses as a
\* whole (line 127) or the expect panics; then every candle is wrapped.
load_json_market_event_candles ==
    /\ mainPc = "load"
    /\ loader = "json"
    /\ rows = <<>>
    /\ \/ /\ mainPc' = "panicked"
          /\ UNCHANGED <<rows, ret, data>>
       \/ \E candles \in SeqsUpTo({[close_time |-> t] : t \in JsonTimes}, MaxRows) :
            /\ rows' = candles
            /\ ret' = [i \in 1..Len(candles) |-> JsonMarketEvent(candles[i])]
            /\ data' = ret'
            /\ mainPc' = "build"
    /\ UNCHANGED <<loader, feed, pulls, txOpen, event_rx, emitted, received,
                   printed, sinkPc>>

(* -------------------------------- main --------------------------------- *)
\* Variant of main_build: the feed is built from data without its first event.
main_build_skip_first ==
    /\ mainPc = "build"
    /\ feed' = IF data = <<>> THEN data ELSE Tail(data)
    /\ txOpen' = TRUE
    /\ mainPc' = "spawn"
    /\ UNCHANGED <<loader, rows, ret, data, pulls, event_rx, emitted,
                   received, printed, sinkPc>>

\* Lines 40-116: the event channel, and the trader holding
\* historical::MarketFeed::new(data) and a clone of event_tx.
main_build ==
    /\ mainPc = "build"
    /\ feed' = data
    /\ txOpen' = TRUE
    /\ mainPc' = "spawn"
    /\ UNCHANGED <<loader, rows, ret, data, pulls, event_rx, emitted,
                   received, printed, sinkPc>>

\* Line 119: tokio::spawn(listen_to_engine_events(event_rx)); line 120 starts
\* engine.run().
main_spawn ==
    /\ mainPc = "spawn"
    /\ sinkPc' = "recv"
    /\ mainPc' = "run"
    /\ UNCHANGED <<loader, rows, ret, data, feed, pulls, txOpen, event_rx,
                   emitted, received, printed>>

(* ----------------------- feed and engine (library) --------------------- *)
\* The feed's pull: the next event, or exhaustion.
historical_MarketFeed_next ==
    /\ mainPc = "run"
    /\ IF feed # <<>>
       THEN /\ pulls' = Append(pulls, FeedNextOf(Head(feed)))
            /\ feed' = Tail(feed)
       ELSE /\ Len(pulls) < Len(data) + MaxExtraPulls
            /\ pulls' = Append(pulls, FeedFinished)
            /\ feed' = feed
    /\ UNCHANGED <<loader, mainPc, rows, ret, data, txOpen, event_rx, emitted,
                   received, printed, sinkPc>>

\* The engine sends one event of any of the ten kinds on the channel.
engine_emit ==
    /\ mainPc = "run"
    /\ txOpen
    /\ Len(emitted) < MaxEmit
    /\ \E kind \in EventKinds :
         /\ event_rx' = Append(event_rx, kind)
         /\ emitted' = Append(emitted, kind)
    /\ UNCHANGED <<loader, mainPc, rows, ret, data, feed, pulls, txOpen,
                   received, printed, sinkPc>>

\* engine.run() completes once the feed has reported exhaustion.
engine_run_finish ==
    /\ mainPc = "run"
    /\ pulls # <<>> /\ pulls[Len(pulls)] = FeedFinished
    /\ mainPc' = "exit"
    /\ UNCHANGED <<loader, rows, ret, data, feed, pulls, txOpen, event_rx,
                   emitted, received, printed, sinkPc>>

\* Line 121: main's body ends; event_tx (line 44) and the engine's clones are
\* dropped, which closes the channel's producing side.
main_return ==
    /\ mainPc = "exit"
    /\ txOpen' = FALSE
    /\ mainPc' = "returned"
    /\ UNCHANGED <<loader, rows, ret, data, feed, pulls, event_rx, emitted,
                   received, printed, sinkPc>>

\* Lines 36-37, 119: #[tokio::main] drops the runtime when main returns; the
\* spawned task was never joined and is dropped at its await point (line 200).
runtime_shutdown ==
    /\ mainPc = "returned"
    /\ sinkPc = "recv"
    /\ sinkPc' = "cancelled"
    /\ UNCHANGED <<loader, mainPc, rows, ret, data, feed, pulls, txOpen,
                   event_rx, emitted, received, printed>>

(* ------------------------------ sink loop ------------------------------ *)
\* Variant of listen_to_engine_events_recv: the loop body takes a second event
\* with try_recv and matches on that one, dropping the event recv() yielded.
listen_to_engine_events_recv_twice ==
    /\ sinkPc = "recv"
    /\ event_rx # <<>>
    /\ IF Len(event_rx) = 1
       THEN /\ event_rx' = <<>>
            /\ UNCHANGED <<received, printed>>
       ELSE LET event == event_rx[2]
            IN  /\ event_rx' = Tail(Tail(event_rx))
                /\ received' = Append(received, event)
                /\ printed' = IF ArmPrints(event) THEN Append(printed, event) ELSE printed
    /\ UNCHANGED <<loader, mainPc, rows, ret, data, feed, pulls, txOpen,
                   emitted, sinkPc>>

\* Lines 200-240: recv() yields the oldest buffered event; its arm runs.
listen_to_engine_events_recv ==
    /\ sinkPc = "recv"
    /\ event_rx # <<>>
    /\ LET event == Head(event_rx)
       IN  /\ event_rx' = Tail(event_rx)
           /\ received' = Append(received, event)
           /\ printed' = IF ArmPrints(event) THEN Append(printed, event) ELSE printed
    /\ UNCHANGED <<loader, mainPc, rows, ret, data, feed, pulls, txOpen,
                   emitted, sinkPc>>

\* Line 200: recv() yields None (every sender dropped, buffer empty); line 241.
listen_to_engine_events_return ==
    /\ sinkPc = "recv"
    /\ event_rx = <<>>
    /\ ~txOpen
    /\ sinkPc' = "returned"
    /\ UNCHANGED <<loader, mainPc, rows, ret, data, feed, pulls, txOpen,
                   event_rx, emitted, received, printed>>

(* --------------------------- specifications ---------------------------- *)
\* The program as written.
Next ==
    \/ load_open_fail
    \/ load_csv_record(NominalRows)
    \/ load_csv_return
    \/ main_build
    \/ main_spawn
    \/ historical_MarketFeed_next
    \/ engine_emit
    \/ engine_run_finish
    \/ main_return
    \/ runtime_shutdown
    \/ listen_to_engine_events_recv
    \/ listen_to_engine_events_return

Spec == Init /\ [][Next]_vars

\* The load-and-replay path, for either loader and for close times at the
\* edges of the timestamp conversions.
NextLoad ==
    \/ load_open_fail
    \/ load_csv_record(BoundaryRows)
    \/ load_csv_return
    \/ load_json_market_event_candles
    \/ main_build
    \/ main_spawn
    \/ historical_MarketFeed_next

SpecLoad == InitLoad /\ [][NextLoad]_vars

(* ------------------------------- claims -------------------------------- *)
Events(ps) == SelectSeq(ps, LAMBDA p : p.tag = "Next")
NonDecreasing(es) ==
    \A i \in 1..Len(es) : \A j \in i..Len(es) : es[i].exchange_time <= es[j].exchange_time
RowsSorted ==
    \A i \in 1..Len(rows) : \A j \in i..Len(rows) : rows[i].close_time <= rows[j].close_time
Range(s) == {s[i] : i \in 1..Len(s)}

\* C1: every CSV row whose close_time m is a representable instant yields a
\* Candle whose close_time, in milliseconds, is m: no sub-second part is lost.
C1_CandleCloseTimeKeepsMillis ==
    loader = "csv" =>
        \A i \in 1..Len(ret) :
            rows[i].close_time <= ChronoMaxMs =>
                ret[i].candle.close_time = rows[i].close_time

\* C2: every Market Event a loader produced has exchange_time equal to the
\* close_time of the candle it holds.
C2_ExchangeTimeIsCandleCloseTime ==
    /\ \A i \in 1..Len(ret) : ret[i].exchange_time = ret[i].candle.close_time
    /\ \A i \in 1..Len(data) : data[i].exchange_time = data[i].candle.close_time

\* C3: once a CSV row has failed to decode, at whatever position, the load has
\* failed: main holds no event sequence, not even a prefix, and no trader or
\* feed was built, no sink task spawned, no pull made and no event emitted.
C3_LoadAllOrNothing ==
    (\E i \in 1..Len(rows) : ~rows[i].decodes) =>
        /\ mainPc = "panicked"
        /\ ret = <<>> /\ data = <<>> /\ feed = <<>>
        /\ pulls = <<>>
        /\ ~txOpen
        /\ sinkPc = "unspawned"
        /\ event_rx = <<>> /\ emitted = <<>> /\ received = <<>> /\ printed = <<>>

\* C3 witness: the load failed on its second row, after a row that decoded.
C3_Witness ==
    /\ mainPc = "panicked"
    /\ Len(rows) = 2
    /\ rows[1].decodes /\ ~rows[2].decodes

\* C4: of a feed built from the N events the loader returned, the i-th pull
\* returns the i-th event for i <= N, and the (N+1)-th pull and every later
\* one report exhaustion; the events left in the feed are those not pulled.
C4_FeedExhaustible ==
    /\ \A i \in 1..Len(pulls) :
          pulls[i] = IF i <= Len(data) THEN FeedNextOf(data[i]) ELSE FeedFinished
    /\ mainPc \in {"run", "exit", "returned"} =>
          feed = SubSeq(data, Len(Events(pulls)) + 1, Len(data))

\* C4 witness: two different events pulled, then exhaustion reported twice.
C4_Witness ==
    /\ Len(data) = 2 /\ data[1] # data[2]
    /\ Len(pulls) = 4
    /\ pulls[3] = FeedFinished /\ pulls[4] = FeedFinished

\* C5: the sink loop has stopped only if the producing side is closed and no
\* emitted event is left undelivered in the channel.
C5_SinkStopsOnlyWhenDrained ==
    sinkPc \in {"returned", "cancelled"} => (~txOpen /\ event_rx = <<>>)

\* C6: if the input records are sorted by close_time ascending, the events the
\* loader built and the feed yielded are in non-decreasing exchange_time order.
C6_SortedInputSortedFeed ==
    RowsSorted =>
        /\ NonDecreasing(data)
        /\ NonDecreasing([i \in 1..Len(Events(pulls)) |-> Events(pulls)[i].event])

\* C7: whatever the order of the source records, no feed holds an event whose
\* exchange_time is earlier than that of the event before it.
C7_FeedAlwaysChronological ==
    /\ NonDecreasing(data)
    /\ NonDecreasing(feed)

\* C8: a CSV record whose u64 close_time is not a representable instant makes
\* the load fail; it never yields an event carrying some other instant.
C8_UnrepresentableCloseTimeFails ==
    loader = "csv" =>
        \A i \in 1..Len(rows) :
            (rows[i].decodes /\ rows[i].close_time > ChronoMaxMs) =>
                mainPc = "panicked"

\* C9: at every moment the events the sink loop has received, followed by the
\* events still buffered, are the events emitted, in emission order: the
\* received sequence is a prefix of the emitted one, nothing duplicated or
\* skipped.
C9_SinkReceivesFifoPrefix ==
    /\ emitted = received \o event_rx
    /\ Len(received) <= Len(emitted)
    /\ \A i \in 1..Len(received) : received[i] = emitted[i]

\* C9 witness: one event received while a different, later one is buffered.
C9_Witness ==
    /\ Len(received) = 1 /\ Len(event_rx) = 1
    /\ received[1] # event_rx[1]

\* C10 as stated: the observation action (the println!) has been performed
\* exactly once for every event received, whatever its kind.
C10_OneObservationPerEvent ==
    Len(printed) = Len(received)

C10_PrintingKind(kind) ==
    kind \in {"Signal", "OrderNew", "Fill", "PositionNew", "PositionUpdate",
              "PositionExit", "Balance"}

\* C10 amended: every received event is printed exactly once if its kind is
\* Signal, OrderNew, Fill, PositionNew, PositionUpdate, PositionExit or
\* Balance, and not at all if it is Market, SignalForceExit or OrderUpdate; no
\* kind ends the loop, so when the loop returns it has received every emitted
\* event.
C10_OnePrintPerPrintingEvent ==
    /\ printed = SelectSeq(received, C10_PrintingKind)
    /\ sinkPc = "returned" => received = emitted

\* C10 witness: the loop returned after a Fill (printed) and a Market (silent).
C10_Witness ==
    /\ sinkPc = "returned"
    /\ Range(received) = {"Fill", "Market"}
    /\ printed = <<"Fill">>

====
